---- MODULE Spec2Model ----
(***************************************************************************)
(* Model of the quiz engine of src/app.js: Question, Quiz (lifecycle and   *)
(* scoring) and QuizManager (registry of Quiz objects).                    *)
(*                                                                         *)
(* Quiz objects live in a heap and are named by references (positions in   *)
(* the heap), so that a handle returned by createQuiz/getQuiz and the      *)
(* entry of the registry can be the same object or different ones.         *)
(* JavaScript's null is NULL (the empty tuple) and a value v that may be   *)
(* null is Some(v).  Indices are 0-based as in the source; sequences of    *)
(* the model are 1-based, so element i of the source is element i+1 here.  *)
(*                                                                         *)
(* percentage is a decimal number with two places (Math.round(p*100)/100); *)
(* the model carries it as the integer number of hundredths, so 50.00 is   *)
(* 5000 and 100.00 is 10000.                                               *)
(***************************************************************************)
EXTENDS Integers, Sequences, FiniteSets, TLC

VARIABLES heap, quizzes, now, ret

vars == <<heap, quizzes, now, ret>>

(***************************************************************************)
(* Bounds of the model.                                                    *)
(***************************************************************************)
\* objects the program allocates: Quiz objects and the Questions added to them
MaxObjects == 3
\* readings of the clock
MaxClock == 1

\* the longest question list a single Quiz can then hold
MaxQuestions == MaxObjects - 1

(***************************************************************************)
(* Values.                                                                 *)
(***************************************************************************)
NULL == <<>>
Some(v) == <<v>>
ValueOf(m) == m[1]

\* an empty slot of a sparse JavaScript array
Hole == [hole |-> TRUE]

QuizIds == {"a", "b"}

\* the id of a Quiz constructed directly, without a QuizManager
DirectId == "direct"

(***************************************************************************)
(* Results of calls: what the last call returned or threw.                 *)
(***************************************************************************)
Undefined == [undefined |-> TRUE]

\* arr[i] of the source: undefined outside the array
ElementAt(arr, i) == IF (i + 1) \in DOMAIN arr THEN arr[i + 1] ELSE Undefined

Returned(op, v) == [op |-> op, status |-> "returned", error |-> "", value |-> v]
Threw(op, msg) == [op |-> op, status |-> "threw", error |-> msg, value |-> Undefined]

(***************************************************************************)
(* Question (src/app.js:177-202).                                          *)
(***************************************************************************)
Question(id, text, options, correctAnswerIndex, points) ==
  [id |-> id, text |-> text, options |-> options,
   correctAnswerIndex |-> correctAnswerIndex, points |-> points]

\* the questions callers add: two 1-point/2-point items with two options
QuestionPool ==
  { Question(1, "q1", <<"a", "b">>, 0, 1),
    Question(2, "q2", <<"c", "d">>, 1, 2) }

\* a value that is not an instance of Question
NotAQuestion == [notAQuestion |-> TRUE]

instanceofQuestion(x) == x \in QuestionPool

isCorrect(question, answerIndex) == answerIndex = question.correctAnswerIndex

getCorrectAnswer(question) == ElementAt(question.options, question.correctAnswerIndex)

MaxOptions ==
  CHOOSE n \in 0..4 :
    /\ \A q \in QuestionPool : Len(q.options) <= n
    /\ \E q \in QuestionPool : Len(q.options) = n

QuestionIndexInputs == -1 .. MaxQuestions
AnswerIndexInputs == -1 .. MaxOptions

(***************************************************************************)
(* Sparse arrays: userAnswers[i] = v, and the callbacks of filter, reduce  *)
(* and map, which skip the empty slots.                                    *)
(***************************************************************************)
RECURSIVE Holes(_)
Holes(n) == IF n <= 0 THEN <<>> ELSE <<Hole>> \o Holes(n - 1)

\* mutant: the record is pushed instead of stored at its question's index
AssignIndex_push(arr, i, v) == Append(arr, v)

\* mutant: a position that already holds a record keeps it
AssignIndex_keepFirst(arr, i, v) ==
  IF i < Len(arr)
    THEN (IF arr[i + 1] = Hole THEN [arr EXCEPT ![i + 1] = v] ELSE arr)
    ELSE arr \o Holes(i - Len(arr)) \o <<v>>

AssignIndex(arr, i, v) ==
  IF i < Len(arr)
    THEN [arr EXCEPT ![i + 1] = v]
    ELSE arr \o Holes(i - Len(arr)) \o <<v>>

RECURSIVE SumPoints(_)
SumPoints(arr) ==
  IF arr = <<>> THEN 0
  ELSE (IF Head(arr) = Hole THEN 0 ELSE Head(arr).points) + SumPoints(Tail(arr))

RECURSIVE CountCorrect(_)
CountCorrect(arr) ==
  IF arr = <<>> THEN 0
  ELSE (IF Head(arr) # Hole /\ Head(arr).isCorrect THEN 1 ELSE 0)
       + CountCorrect(Tail(arr))

(***************************************************************************)
(* Quiz (src/app.js:207-359).                                              *)
(***************************************************************************)
NewQuiz(id) ==
  [id |-> id, questions |-> <<>>, userAnswers |-> <<>>,
   startTime |-> NULL, endTime |-> NULL]

\* mutant: the total is the number of questions, not the sum of their points
getTotalPoints_count(quiz) == Len(quiz.questions)

getTotalPoints(quiz) == SumPoints(quiz.questions)

ValidQuestionIndex(quiz, questionIndex) ==
  ~(questionIndex < 0 \/ questionIndex >= Len(quiz.questions))

\* mutant: the upper bound of the answer index tested with > instead of >=
ValidAnswerIndex_offByOne(question, answerIndex) ==
  ~(answerIndex < 0 \/ answerIndex > Len(question.options))

ValidAnswerIndex(question, answerIndex) ==
  ~(answerIndex < 0 \/ answerIndex >= Len(question.options))

\* mutant: the points of the question awarded whatever the answer
AnswerRecord_alwaysPoints(question, answerIndex, t) ==
  [questionId |-> question.id,
   answerIndex |-> answerIndex,
   isCorrect |-> isCorrect(question, answerIndex),
   points |-> question.points,
   timestamp |-> t]

AnswerRecord(question, answerIndex, t) ==
  [questionId |-> question.id,
   answerIndex |-> answerIndex,
   isCorrect |-> isCorrect(question, answerIndex),
   points |-> IF isCorrect(question, answerIndex) THEN question.points ELSE 0,
   timestamp |-> t]

\* Math.round((score / maxScore) * 100 * 100) / 100, in hundredths;
\* NaN when maxScore is 0 (0/0)
NaN == [nan |-> TRUE]

\* mutant: the ratio is not scaled to a percentage (score / maxScore)
Percentage_fraction(score, maxScore) ==
  IF maxScore = 0 THEN NaN
  ELSE (2 * score * 100 + maxScore) \div (2 * maxScore)

Percentage(score, maxScore) ==
  IF maxScore = 0 THEN NaN
  ELSE (2 * score * 10000 + maxScore) \div (2 * maxScore)

\* mutant: the selected and the correct option texts change places
Detail_swapped(quiz, index, answer) ==
  [questionIndex |-> index,
   questionText |-> quiz.questions[index + 1].text,
   selectedAnswer |-> getCorrectAnswer(quiz.questions[index + 1]),
   correctAnswer |-> ElementAt(quiz.questions[index + 1].options, answer.answerIndex),
   isCorrect |-> answer.isCorrect,
   pointsEarned |-> answer.points,
   maxPoints |-> quiz.questions[index + 1].points]

Detail(quiz, index, answer) ==
  [questionIndex |-> index,
   questionText |-> quiz.questions[index + 1].text,
   selectedAnswer |-> ElementAt(quiz.questions[index + 1].options, answer.answerIndex),
   correctAnswer |-> getCorrectAnswer(quiz.questions[index + 1]),
   isCorrect |-> answer.isCorrect,
   pointsEarned |-> answer.points,
   maxPoints |-> quiz.questions[index + 1].points]

Details(quiz) ==
  [i \in 1..Len(quiz.userAnswers) |->
     IF quiz.userAnswers[i] = Hole THEN Hole
     ELSE Detail(quiz, i - 1, quiz.userAnswers[i])]

Duration(quiz, t) ==
  IF quiz.endTime # NULL
    THEN ValueOf(quiz.endTime) - ValueOf(quiz.startTime)
    ELSE t - ValueOf(quiz.startTime)

getResults(quiz, t) ==
  IF quiz.startTime = NULL \/ Len(quiz.userAnswers) = 0
    THEN [totalQuestions |-> Len(quiz.questions),
          answeredQuestions |-> Len(quiz.userAnswers),
          correctAnswers |-> 0,
          score |-> 0,
          maxScore |-> getTotalPoints(quiz),
          percentage |-> 0,
          duration |-> NULL,
          details |-> <<>>]
    ELSE [totalQuestions |-> Len(quiz.questions),
          answeredQuestions |-> Len(quiz.userAnswers),
          correctAnswers |-> CountCorrect(quiz.userAnswers),
          score |-> SumPoints(quiz.userAnswers),
          maxScore |-> getTotalPoints(quiz),
          percentage |-> Percentage(SumPoints(quiz.userAnswers), getTotalPoints(quiz)),
          duration |-> Some(Duration(quiz, t)),
          details |-> Details(quiz)]

\* mutant: currentScore counts the correct answers instead of their points
getProgress_countCorrect(quiz) ==
  [totalQuestions |-> Len(quiz.questions),
   answeredQuestions |-> Len(quiz.userAnswers),
   currentScore |-> CountCorrect(quiz.userAnswers),
   maxPossibleScore |-> getTotalPoints(quiz)]

\* percentComplete is left out: it is a quotient no claim reads
getProgress(quiz) ==
  [totalQuestions |-> Len(quiz.questions),
   answeredQuestions |-> Len(quiz.userAnswers),
   currentScore |-> SumPoints(quiz.userAnswers),
   maxPossibleScore |-> getTotalPoints(quiz)]

\* the number of objects allocated so far: the Quiz objects and their Questions
HeapSize ==
  LET RECURSIVE Tot(_)
      Tot(n) == IF n = 0 THEN 0 ELSE 1 + Len(heap[n].questions) + Tot(n - 1)
  IN Tot(Len(heap))

addQuestion(h, question) ==
  /\ h \in DOMAIN heap
  /\ IF ~instanceofQuestion(question)
       THEN /\ ret' = Threw("addQuestion", "Invalid question object")
            /\ UNCHANGED heap
       ELSE /\ HeapSize < MaxObjects
            /\ heap' = [heap EXCEPT ![h].questions = Append(@, question)]
            /\ ret' = Returned("addQuestion", Undefined)
  /\ UNCHANGED <<quizzes, now>>

\* mutant: start() does not clear the answers of the previous attempt
start_keepAnswers(h) ==
  /\ h \in DOMAIN heap
  /\ heap' = [heap EXCEPT ![h].startTime = Some(now)]
  /\ ret' = Returned("start", Undefined)
  /\ UNCHANGED <<quizzes, now>>

start(h) ==
  /\ h \in DOMAIN heap
  /\ heap' = [heap EXCEPT ![h].startTime = Some(now), ![h].userAnswers = <<>>]
  /\ ret' = Returned("start", Undefined)
  /\ UNCHANGED <<quizzes, now>>

\* the outcome of submitAnswer on a quiz at time t: what it returns or throws
\* and the quiz it leaves
submitAnswerCall(quiz, questionIndex, answerIndex, t) ==
  IF ~ValidQuestionIndex(quiz, questionIndex)
    THEN [ret |-> Threw("submitAnswer", "Invalid question index"), quiz |-> quiz]
  ELSE IF ElementAt(quiz.questions, questionIndex) = Undefined
    THEN \* question is undefined: reading question.options throws
         [ret |-> Threw("submitAnswer", "TypeError"), quiz |-> quiz]
  ELSE IF ~ValidAnswerIndex(ElementAt(quiz.questions, questionIndex), answerIndex)
    THEN [ret |-> Threw("submitAnswer", "Invalid answer index"), quiz |-> quiz]
  ELSE [ret |-> Returned("submitAnswer", TRUE),
        quiz |-> [quiz EXCEPT !.userAnswers =
                    AssignIndex(@, questionIndex,
                      AnswerRecord(ElementAt(quiz.questions, questionIndex),
                                   answerIndex, t))]]

submitAnswer(h, questionIndex, answerIndex) ==
  /\ h \in DOMAIN heap
  /\ heap' = [heap EXCEPT
               ![h] = submitAnswerCall(heap[h], questionIndex, answerIndex, now).quiz]
  /\ ret' = submitAnswerCall(heap[h], questionIndex, answerIndex, now).ret
  /\ UNCHANGED <<quizzes, now>>

\* mutant: finish() computes the results before it sets endTime
finish_resultsFirst(h) ==
  /\ h \in DOMAIN heap
  /\ heap' = [heap EXCEPT ![h].endTime = Some(now)]
  /\ ret' = Returned("finish", getResults(heap[h], now))
  /\ UNCHANGED <<quizzes, now>>

finish(h) ==
  /\ h \in DOMAIN heap
  /\ heap' = [heap EXCEPT ![h].endTime = Some(now)]
  /\ ret' = Returned("finish", getResults(heap'[h], now))
  /\ UNCHANGED <<quizzes, now>>

\* mutant: reset() leaves the end time of the finished attempt
reset_keepEndTime(h) ==
  /\ h \in DOMAIN heap
  /\ heap' = [heap EXCEPT ![h].userAnswers = <<>>,
                          ![h].startTime = NULL]
  /\ ret' = Returned("reset", Undefined)
  /\ UNCHANGED <<quizzes, now>>

reset(h) ==
  /\ h \in DOMAIN heap
  /\ heap' = [heap EXCEPT ![h].userAnswers = <<>>,
                          ![h].startTime = NULL,
                          ![h].endTime = NULL]
  /\ ret' = Returned("reset", Undefined)
  /\ UNCHANGED <<quizzes, now>>

\* the clock read by new Date() advances between calls
Tick ==
  /\ now < MaxClock
  /\ now' = now + 1
  /\ UNCHANGED <<heap, quizzes, ret>>

(***************************************************************************)
(* The life of one Quiz constructed directly.                              *)
(***************************************************************************)
Init ==
  /\ heap = <<NewQuiz(DirectId)>>
  /\ quizzes = <<>>
  /\ now = 0
  /\ ret = [op |-> "new Quiz", status |-> "returned", error |-> "", value |-> 1]

Next ==
  \/ \E question \in QuestionPool \cup {NotAQuestion} : addQuestion(1, question)
  \/ start(1)
  \/ \E questionIndex \in QuestionIndexInputs, answerIndex \in AnswerIndexInputs :
       submitAnswer(1, questionIndex, answerIndex)
  \/ finish(1)
  \/ reset(1)
  \/ Tick

Spec == Init /\ [][Next]_vars

(***************************************************************************)
(* QuizManager (src/app.js:368-426).  quizzes is a JavaScript Map: its     *)
(* entries in insertion order, each a key and the reference of a Quiz.     *)
(***************************************************************************)
MapHas(map, key) == \E i \in DOMAIN map : map[i].key = key

MapGet(map, key) == map[CHOOSE i \in DOMAIN map : map[i].key = key].value

MapSet(map, key, value) ==
  IF MapHas(map, key)
    THEN [i \in DOMAIN map |->
            IF map[i].key = key THEN [key |-> key, value |-> value] ELSE map[i]]
    ELSE Append(map, [key |-> key, value |-> value])

MapDelete(map, key) == SelectSeq(map, LAMBDA e : e.key # key)

\* mutant: no test for an id already registered: the entry is replaced
createQuiz_overwrite(id) ==
  /\ HeapSize < MaxObjects
  /\ heap' = Append(heap, NewQuiz(id))
  /\ quizzes' = MapSet(quizzes, id, Len(heap) + 1)
  /\ ret' = Returned("createQuiz", Len(heap) + 1)
  /\ UNCHANGED now

createQuiz(id) ==
  /\ IF MapHas(quizzes, id)
       THEN /\ ret' = Threw("createQuiz", "already exists")
            /\ UNCHANGED <<heap, quizzes>>
       ELSE /\ HeapSize < MaxObjects
            /\ heap' = Append(heap, NewQuiz(id))
            /\ quizzes' = MapSet(quizzes, id, Len(heap) + 1)
            /\ ret' = Returned("createQuiz", Len(heap) + 1)
  /\ UNCHANGED now

\* mutant: getQuiz hands out a copy of the registered Quiz
getQuiz_copy(id) ==
  /\ IF ~MapHas(quizzes, id)
       THEN /\ ret' = Threw("getQuiz", "not found")
            /\ UNCHANGED heap
       ELSE /\ heap' = Append(heap, heap[MapGet(quizzes, id)])
            /\ ret' = Returned("getQuiz", Len(heap) + 1)
  /\ UNCHANGED <<quizzes, now>>

getQuiz(id) ==
  /\ IF ~MapHas(quizzes, id)
       THEN ret' = Threw("getQuiz", "not found")
       ELSE ret' = Returned("getQuiz", MapGet(quizzes, id))
  /\ UNCHANGED <<heap, quizzes, now>>

\* mutant: deleteQuiz also resets the quiz it removes
deleteQuiz_reset(id) ==
  /\ quizzes' = MapDelete(quizzes, id)
  /\ heap' = IF MapHas(quizzes, id)
               THEN [heap EXCEPT ![MapGet(quizzes, id)].userAnswers = <<>>,
                                 ![MapGet(quizzes, id)].startTime = NULL,
                                 ![MapGet(quizzes, id)].endTime = NULL]
               ELSE heap
  /\ ret' = Returned("deleteQuiz", MapHas(quizzes, id))
  /\ UNCHANGED now

\* mutant: deleteQuiz reports a removal whether or not the id was registered
deleteQuiz_alwaysTrue(id) ==
  /\ quizzes' = MapDelete(quizzes, id)
  /\ ret' = Returned("deleteQuiz", TRUE)
  /\ UNCHANGED <<heap, now>>

deleteQuiz(id) ==
  /\ quizzes' = MapDelete(quizzes, id)
  /\ ret' = Returned("deleteQuiz", MapHas(quizzes, id))
  /\ UNCHANGED <<heap, now>>

listQuizzes == [i \in DOMAIN quizzes |-> quizzes[i].value]

getQuizCount == Len(quizzes)

(***************************************************************************)
(* A QuizManager and the Quiz objects it creates, used through the handles *)
(* createQuiz and getQuiz return; every handle ever returned stays usable. *)
(* The caller of the manager works within one reading of the clock, adds   *)
(* the 1-point question of the pool and answers questions that exist; the  *)
(* other inputs of the Quiz operations are those of Next.                  *)
(***************************************************************************)
InitManager ==
  /\ heap = <<>>
  /\ quizzes = <<>>
  /\ now = 0
  /\ ret = [op |-> "new QuizManager", status |-> "returned", error |-> "",
            value |-> Undefined]

NextManager ==
  \/ \E id \in QuizIds : createQuiz(id)
  \/ \E id \in QuizIds : getQuiz(id)
  \/ \E id \in QuizIds : deleteQuiz(id)
  \/ \E h \in DOMAIN heap, question \in {q \in QuestionPool : q.points = 1} :
       addQuestion(h, question)
  \/ \E h \in DOMAIN heap : start(h)
  \/ \E h \in DOMAIN heap,
        questionIndex \in 0 .. MaxQuestions - 1, answerIndex \in 0 .. MaxOptions - 1 :
       /\ ValidQuestionIndex(heap[h], questionIndex)
       /\ submitAnswer(h, questionIndex, answerIndex)
  \/ \E h \in DOMAIN heap : finish(h)
  \/ \E h \in DOMAIN heap : reset(h)

SpecManager == InitManager /\ [][NextManager]_vars

(***************************************************************************)
(* Vocabulary of the properties.                                           *)
(***************************************************************************)
\* the question positions (1-based) of a quiz that hold an AnswerRecord
Answered(quiz) ==
  {i \in 1..Len(quiz.userAnswers) : quiz.userAnswers[i] # Hole}

\* the answered positions whose recorded index is the question's correct one
AnsweredCorrectly(quiz) ==
  {i \in Answered(quiz) :
     i \in DOMAIN quiz.questions
     /\ quiz.userAnswers[i].answerIndex = quiz.questions[i].correctAnswerIndex}

\* the sum of the points of the questions at the positions S
RECURSIVE PointsOf(_, _)
PointsOf(quiz, S) ==
  IF S = {} THEN 0
  ELSE LET i == CHOOSE j \in S : TRUE
       IN quiz.questions[i].points + PointsOf(quiz, S \ {i})

Started(quiz) == quiz.startTime # NULL

\* a questionIndex/answerIndex pair submitAnswer has to refuse
OutOfRange(quiz, questionIndex, answerIndex) ==
  \/ questionIndex \notin 0 .. (Len(quiz.questions) - 1)
  \/ answerIndex \notin 0 .. (Len(quiz.questions[questionIndex + 1].options) - 1)

ZeroedResults(quiz, r) ==
  /\ r.correctAnswers = 0
  /\ r.score = 0
  /\ r.percentage = 0
  /\ r.duration = NULL
  /\ r.details = <<>>
  /\ r.totalQuestions = Len(quiz.questions)
  /\ r.maxScore = PointsOf(quiz, DOMAIN quiz.questions)

(***************************************************************************)
(* C1: in every lifecycle state, submitAnswer with a questionIndex outside *)
(* [0, questions.length) or an answerIndex outside the selected question's *)
(* options fails, and the failed call leaves userAnswers, startTime and    *)
(* endTime as they were.                                                   *)
(***************************************************************************)
C1_SubmitOutOfRangeFails ==
  \A h \in DOMAIN heap :
    \A questionIndex \in QuestionIndexInputs, answerIndex \in AnswerIndexInputs :
      OutOfRange(heap[h], questionIndex, answerIndex)
      => LET call == submitAnswerCall(heap[h], questionIndex, answerIndex, now)
         IN /\ call.ret.status = "threw"
            /\ call.quiz.userAnswers = heap[h].userAnswers
            /\ call.quiz.startTime = heap[h].startTime
            /\ call.quiz.endTime = heap[h].endTime

\* a refused answer index on a finished attempt that holds answers
C1_Witness ==
  /\ ret.op = "submitAnswer"
  /\ ret.status = "threw"
  /\ ret.error = "Invalid answer index"
  /\ heap[1].endTime # NULL
  /\ Answered(heap[1]) # {}

(***************************************************************************)
(* C2: for a started quiz with at least one recorded answer, getResults()  *)
(* reports correctAnswers = the number of positions whose recorded index   *)
(* is the question's correctAnswerIndex, score = the sum of the points of  *)
(* exactly those questions, maxScore = the sum of all questions' points.   *)
(* As claimed, percentage equals score/maxScore*100 exactly; as amended,   *)
(* percentage is score/maxScore*100 rounded to two decimal places.         *)
(***************************************************************************)
C2_Counts(quiz, r) ==
  /\ r.correctAnswers = Cardinality(AnsweredCorrectly(quiz))
  /\ r.score = PointsOf(quiz, AnsweredCorrectly(quiz))
  /\ r.maxScore = PointsOf(quiz, DOMAIN quiz.questions)

\* the original claim: r.percentage / 100 = score / maxScore * 100
C2_ScoringExact ==
  \A h \in DOMAIN heap :
    (Started(heap[h]) /\ Answered(heap[h]) # {})
    => LET r == getResults(heap[h], now)
       IN /\ C2_Counts(heap[h], r)
          /\ r.percentage * r.maxScore = r.score * 10000

\* the amended claim: r.percentage is the hundredth nearest to score/maxScore*100
C2_ScoringRounded ==
  \A h \in DOMAIN heap :
    (Started(heap[h]) /\ Answered(heap[h]) # {})
    => LET r == getResults(heap[h], now)
           d == r.percentage * r.maxScore - r.score * 10000
       IN /\ C2_Counts(heap[h], r)
          /\ 2 * d <= r.maxScore
          /\ 2 * d > -r.maxScore

\* the scenario of the specification: two 1-point questions, one answered
\* correctly and one incorrectly, give 1 / 1 / 2 / 50.00
C2_Witness ==
  /\ Started(heap[1])
  /\ Len(heap[1].questions) = 2
  /\ \A i \in 1..2 : heap[1].questions[i].points = 1
  /\ Answered(heap[1]) = {1, 2}
  /\ Cardinality(AnsweredCorrectly(heap[1])) = 1
  /\ LET r == getResults(heap[1], now)
     IN r.correctAnswers = 1 /\ r.score = 1 /\ r.maxScore = 2 /\ r.percentage = 5000

(***************************************************************************)
(* C3: after start() and the correct answer submitted for every question,  *)
(* getResults().score = getTotalPoints() and percentage = 100.  As         *)
(* claimed, for every quiz; as amended, for every quiz that has at least   *)
(* one question.                                                           *)
(***************************************************************************)
AllAnsweredCorrectly(quiz) ==
  /\ Started(quiz)
  /\ AnsweredCorrectly(quiz) = DOMAIN quiz.questions

C3_PerfectScoreEveryQuiz ==
  \A h \in DOMAIN heap :
    AllAnsweredCorrectly(heap[h])
    => LET r == getResults(heap[h], now)
       IN r.score = getTotalPoints(heap[h]) /\ r.percentage = 10000

C3_PerfectScore ==
  \A h \in DOMAIN heap :
    (AllAnsweredCorrectly(heap[h]) /\ Len(heap[h].questions) >= 1)
    => LET r == getResults(heap[h], now)
       IN r.score = getTotalPoints(heap[h]) /\ r.percentage = 10000

\* both questions answered correctly, the later one first
C3_Witness ==
  /\ AllAnsweredCorrectly(heap[1])
  /\ Len(heap[1].questions) = 2
  /\ heap[1].userAnswers[2].timestamp < heap[1].userAnswers[1].timestamp
  /\ getResults(heap[1], now).percentage = 10000

(***************************************************************************)
(* C4: whenever no attempt has started or no answer is recorded, and in    *)
(* particular right after start() from any prior state, getResults()       *)
(* reports correctAnswers = 0, score = 0, percentage = 0, duration = null  *)
(* and empty details, with totalQuestions and maxScore those of the        *)
(* current questions.                                                      *)
(***************************************************************************)
C4_ZeroedResults ==
  /\ [](\A h \in DOMAIN heap :
          (~Started(heap[h]) \/ Answered(heap[h]) = {})
          => ZeroedResults(heap[h], getResults(heap[h], now)))
  /\ [][\A h \in DOMAIN heap :
          start(h) => ZeroedResults(heap'[h], getResults(heap'[h], now'))]_vars

\* right after a start() that follows a finished attempt on two questions
C4_Witness ==
  /\ ret.op = "start"
  /\ heap[1].endTime # NULL
  /\ Len(heap[1].questions) = 2
  /\ ZeroedResults(heap[1], getResults(heap[1], now))

(***************************************************************************)
(* C5: in every reachable state userAnswers is no longer than questions,   *)
(* and the AnswerRecord at position i has the id of questions[i] and the   *)
(* isCorrect and points that questions[i] gives its answer index.          *)
(***************************************************************************)
C5_AnswersMatchQuestions ==
  \A h \in DOMAIN heap :
    /\ Len(heap[h].userAnswers) <= Len(heap[h].questions)
    /\ \A i \in Answered(heap[h]) :
         LET a == heap[h].userAnswers[i]
             q == heap[h].questions[i]
         IN /\ a.questionId = q.id
            /\ a.isCorrect = (a.answerIndex = q.correctAnswerIndex)
            /\ a.points = IF a.answerIndex = q.correctAnswerIndex THEN q.points ELSE 0

\* the second of two different questions answered, the first one not
C5_Witness ==
  /\ Len(heap[1].questions) = 2
  /\ heap[1].questions[1].id # heap[1].questions[2].id
  /\ Answered(heap[1]) = {2}

(***************************************************************************)
(* C6: start() moves the quiz to InProgress from every state: right after  *)
(* start() startTime is the current time, no answer is recorded and no     *)
(* endTime is left over from an earlier finish().                          *)
(***************************************************************************)
C6_StartEntersInProgress ==
  [][\A h \in DOMAIN heap :
       start(h) => /\ heap'[h].startTime = Some(now)
                   /\ heap'[h].userAnswers = <<>>
                   /\ heap'[h].endTime = NULL]_vars

(***************************************************************************)
(* C7: reset() in any state empties userAnswers, unsets startTime and      *)
(* endTime and leaves questions as they were; getProgress() then reports   *)
(* answeredQuestions = 0 and currentScore = 0.                             *)
(***************************************************************************)
C7_ResetReturnsToNotStarted ==
  [][\A h \in DOMAIN heap :
       reset(h) => /\ heap'[h].userAnswers = <<>>
                   /\ heap'[h].startTime = NULL
                   /\ heap'[h].endTime = NULL
                   /\ heap'[h].questions = heap[h].questions
                   /\ getProgress(heap'[h]).answeredQuestions = 0
                   /\ getProgress(heap'[h]).currentScore = 0]_vars

\* right after a reset() of a quiz that keeps its two questions
C7_Witness ==
  /\ ret.op = "reset"
  /\ Len(heap[1].questions) = 2
  /\ heap[1].userAnswers = <<>>
  /\ heap[1].startTime = NULL
  /\ heap[1].endTime = NULL

(***************************************************************************)
(* C8: whatever the order of the question indices answered since the last  *)
(* start()/reset(), getProgress().answeredQuestions is the number of       *)
(* question positions that hold an AnswerRecord.                           *)
(***************************************************************************)
C8_AnsweredQuestionsCountsRecords ==
  \A h \in DOMAIN heap :
    getProgress(heap[h]).answeredQuestions = Cardinality(Answered(heap[h]))

(***************************************************************************)
(* C9: createQuiz(id) fails with AlreadyExists whenever id is registered   *)
(* and then leaves the registry and the registered Quiz as they were;      *)
(* when id is not registered it registers and returns a new Quiz with no   *)
(* questions, no answers and no timestamps.                                *)
(***************************************************************************)
C9_CreateQuiz ==
  [][\A id \in QuizIds :
       createQuiz(id) =>
         IF MapHas(quizzes, id)
           THEN /\ ret'.op = "createQuiz"
                /\ ret'.status = "threw"
                /\ ret'.error = "already exists"
                /\ quizzes' = quizzes
                /\ MapGet(quizzes', id) = MapGet(quizzes, id)
                /\ heap' = heap
                /\ Len(quizzes') = Len(quizzes)
           ELSE /\ ret'.op = "createQuiz"
                /\ ret'.status = "returned"
                /\ ret'.value \notin DOMAIN heap
                /\ MapHas(quizzes', id)
                /\ MapGet(quizzes', id) = ret'.value
                /\ heap'[ret'.value] = NewQuiz(id)
                /\ \A h \in DOMAIN heap : heap'[h] = heap[h]
                /\ Len(quizzes') = Len(quizzes) + 1]_vars

\* a refused createQuiz for an id whose Quiz has a question, an answer and
\* both timestamps
C9_Witness ==
  /\ ret.op = "createQuiz"
  /\ ret.status = "threw"
  /\ \E id \in QuizIds :
       /\ MapHas(quizzes, id)
       /\ Answered(heap[MapGet(quizzes, id)]) # {}
       /\ heap[MapGet(quizzes, id)].startTime # NULL
       /\ heap[MapGet(quizzes, id)].endTime # NULL

(***************************************************************************)
(* C10: getQuiz(id) fails with NotFound exactly when id is not registered  *)
(* (never created, or deleted after its last creation); otherwise it       *)
(* returns the registered Quiz itself, not a copy, so what was done        *)
(* through one handle is what a later getQuiz(id) shows.                   *)
(***************************************************************************)
C10_GetQuiz ==
  [][/\ \A id \in QuizIds :
          (ret'.op = "getQuiz" /\ getQuiz(id)) =>
            /\ heap' = heap
            /\ quizzes' = quizzes
            /\ IF MapHas(quizzes, id)
                 THEN /\ ret'.status = "returned"
                      /\ ret'.value = MapGet(quizzes, id)
                 ELSE /\ ret'.status = "threw"
                      /\ ret'.error = "not found"
     \* an id is registered from its creation, with the Quiz createQuiz
     \* returned, until its deletion
     /\ \A id \in QuizIds :
          /\ (ret'.op = "createQuiz" /\ ret'.status = "returned" /\ createQuiz(id))
               => (MapHas(quizzes', id) /\ MapGet(quizzes', id) = ret'.value)
          /\ (ret'.op = "deleteQuiz" /\ deleteQuiz(id)) => ~MapHas(quizzes', id)
          /\ (MapHas(quizzes', id) # MapHas(quizzes, id))
               => (createQuiz(id) \/ deleteQuiz(id))
          /\ (MapHas(quizzes, id) /\ MapHas(quizzes', id))
               => MapGet(quizzes', id) = MapGet(quizzes, id)
    ]_vars

\* getQuiz returns the Quiz that was started, answered and finished through
\* an earlier handle
C10_Witness ==
  /\ ret.op = "getQuiz"
  /\ ret.status = "returned"
  /\ Answered(heap[ret.value]) # {}
  /\ heap[ret.value].startTime # NULL
  /\ heap[ret.value].endTime # NULL

(***************************************************************************)
(* C11: deleteQuiz(id) returns true exactly when id was registered and     *)
(* then removes only that entry (getQuizCount() one less, listQuizzes()    *)
(* without that Quiz, the other entries untouched); for an unregistered id *)
(* it returns false and leaves the registry unchanged.  At all times       *)
(* getQuizCount() is the number of registered ids and the length of        *)
(* listQuizzes().                                                          *)
(***************************************************************************)
Registered == {id \in QuizIds : MapHas(quizzes, id)}

C11_DeleteQuiz ==
  /\ [](/\ getQuizCount = Cardinality(Registered)
        /\ getQuizCount = Len(listQuizzes))
  /\ [][\A id \in QuizIds :
          (ret'.op = "deleteQuiz" /\ deleteQuiz(id)) =>
            /\ ret'.status = "returned"
            /\ ret'.value = MapHas(quizzes, id)
            /\ heap' = heap
            /\ IF MapHas(quizzes, id)
                 THEN /\ ~MapHas(quizzes', id)
                      /\ getQuizCount' = getQuizCount - 1
                      /\ \A i \in DOMAIN listQuizzes' :
                           listQuizzes'[i] # MapGet(quizzes, id)
                      /\ \A other \in QuizIds \ {id} :
                           /\ MapHas(quizzes', other) = MapHas(quizzes, other)
                           /\ MapHas(quizzes, other)
                                => MapGet(quizzes', other) = MapGet(quizzes, other)
                 ELSE quizzes' = quizzes]_vars

\* one of two registered quizzes was just deleted; the other is still listed
C11_Witness ==
  /\ ret.op = "deleteQuiz"
  /\ ret.value = TRUE
  /\ getQuizCount = 1
  /\ Len(heap) = 2
  /\ listQuizzes[1] \in DOMAIN heap

(***************************************************************************)
(* The quiz access key.  Strings are sequences of code points, a Buffer is *)
(* the sequence of the bytes of their UTF-8 encoding.  The operations of   *)
(* Spec and SpecManager never read the key, so only SpecKey carries it.    *)
(***************************************************************************)
MaxKeyLen == 3

\* 'a', 'b' (one byte each) and U+00E9 (two bytes)
Chars == {97, 98, 233}

AsciiChars == {c \in Chars : c < 128}

StringsOfLength(alphabet, n) == [1..n -> alphabet]

Strings == UNION {StringsOfLength(Chars, n) : n \in 0..MaxKeyLen}

Utf8Char(c) ==
  IF c < 128 THEN <<c>>
  ELSE IF c < 2048 THEN <<192 + (c \div 64), 128 + (c % 64)>>
  ELSE <<224 + (c \div 4096), 128 + ((c \div 64) % 64), 128 + (c % 64)>>

RECURSIVE BufferFrom(_)
BufferFrom(str) ==
  IF str = <<>> THEN <<>> ELSE Utf8Char(Head(str)) \o BufferFrom(Tail(str))

RangeError == "Input buffers must have the same byte length"

\* crypto.timingSafeEqual: throws unless both buffers have the same byte
\* length, otherwise compares every byte
timingSafeEqual(a, b) ==
  IF Len(a) # Len(b) THEN Threw("timingSafeEqual", RangeError)
  ELSE Returned("timingSafeEqual", \A i \in 1..Len(a) : a[i] = b[i])

\* the keys generateQuizKey(length) can return: length characters of the
\* (ASCII) key alphabet
generateQuizKey(length) == StringsOfLength(AsciiChars, length)

\* new Quiz(id, title, description, key): a null or empty key is falsy and
\* replaced by the generated one
QuizWithKey(id, key, generated) ==
  ("key" :> (IF key = NULL THEN generated ELSE key)) @@ NewQuiz(id)

\* mutant: the key is compared as a string
validateKeyCall_stringEquals(quiz, providedKey) ==
  Returned("validateKey", quiz.key = providedKey)

validateKeyCall(quiz, providedKey) ==
  LET equal == timingSafeEqual(BufferFrom(quiz.key), BufferFrom(providedKey))
  IN  IF equal.status = "threw"
        THEN Threw("validateKey", equal.error)
        ELSE Returned("validateKey", equal.value)

validateKey(h, providedKey) ==
  /\ ret' = validateKeyCall(heap[h], providedKey)
  /\ UNCHANGED <<heap, quizzes, now>>

InitKey ==
  /\ \E key \in Strings, generated \in generateQuizKey(MaxKeyLen) :
       heap = <<QuizWithKey(DirectId, key, generated)>>
  /\ quizzes = <<>>
  /\ now = 0
  /\ ret = [op |-> "new Quiz", status |-> "returned", error |-> "", value |-> 1]

NextKey == \E providedKey \in Strings : validateKey(1, providedKey)

SpecKey == InitKey /\ [][NextKey]_vars

ScoringSnapshot(results) ==
  [score |-> results.score,
   correctAnswers |-> results.correctAnswers,
   percentage |-> results.percentage,
   details |-> results.details]

C13_FinishFreezesResults ==
  [][(ret.op = "finish" /\ ret'.op \notin {"start", "reset"})
       => ScoringSnapshot(getResults(heap'[1], now')) = ScoringSnapshot(ret.value)]_vars

(***************************************************************************)
(* C14: finish() sets endTime to the current time and returns exactly what *)
(* getResults() computes on the resulting state; a finish() that follows a *)
(* finish() with no submitAnswer/start/reset/addQuestion in between moves  *)
(* endTime forward but returns the same totalQuestions, correctAnswers,    *)
(* score, maxScore, percentage and details.                                *)
(***************************************************************************)
C14_FinishReturnsResults ==
  [][\A h \in DOMAIN heap :
       (ret'.op = "finish" /\ finish(h)) =>
         /\ heap'[h].endTime = Some(now)
         /\ ret'.value = getResults(heap'[h], now')
         /\ ret.op = "finish" =>
              /\ ValueOf(heap'[h].endTime) >= ValueOf(heap[h].endTime)
              /\ \A field \in {"totalQuestions", "correctAnswers", "score",
                               "maxScore", "percentage", "details"} :
                   ret'.value[field] = ret.value[field]]_vars

\* a finish() after the clock moved on from an earlier end time, on a started
\* quiz that holds an answer
C14_Witness ==
  /\ ret.op = "finish"
  /\ heap[1].startTime = Some(0)
  /\ heap[1].endTime = Some(MaxClock)
  /\ Answered(heap[1]) # {}
  /\ ret.value.duration = Some(MaxClock)

(***************************************************************************)
(* C15: a successful submitAnswer(i, a) for a position that already holds  *)
(* a record replaces that record: the number of answered questions is      *)
(* unchanged, the records at the other positions are unchanged, and the    *)
(* score counts question i's points only according to the latest answer.   *)
(***************************************************************************)
C15_ResubmitReplaces ==
  \A h \in DOMAIN heap :
    \A questionIndex \in QuestionIndexInputs, answerIndex \in AnswerIndexInputs :
      LET quiz  == heap[h]
          call  == submitAnswerCall(quiz, questionIndex, answerIndex, now)
          after == call.quiz
          i     == questionIndex + 1
      IN  (call.ret.status = "returned" /\ i \in Answered(quiz)) =>
            /\ Answered(after) = Answered(quiz)
            /\ getProgress(after).answeredQuestions = getProgress(quiz).answeredQuestions
            /\ \A j \in DOMAIN quiz.userAnswers \ {i} :
                 after.userAnswers[j] = quiz.userAnswers[j]
            /\ after.userAnswers[i].answerIndex = answerIndex
            /\ getProgress(after).currentScore =
                 PointsOf(quiz, AnsweredCorrectly(quiz) \ {i})
                 + (IF isCorrect(quiz.questions[i], answerIndex)
                      THEN quiz.questions[i].points ELSE 0)

\* two positions hold records, the first one written after the second and
\* after the clock moved on, the last call being a successful submitAnswer
C15_Witness ==
  /\ ret.op = "submitAnswer"
  /\ ret.status = "returned"
  /\ Answered(heap[1]) = {1, 2}
  /\ heap[1].userAnswers[1].timestamp = MaxClock
  /\ heap[1].userAnswers[2].timestamp = 0

(***************************************************************************)
(* C16: for a started quiz, getResults().details holds exactly one entry   *)
(* per recorded answer and none for an unanswered question, in whatever    *)
(* order the questions were answered; the entry for position i carries     *)
(* questions[i]'s text, the text of the option selected, the text of the   *)
(* correct option, the record's correctness, the points earned and         *)
(* questions[i].points.  (details is a sparse array: an unanswered         *)
(* position below the last answered one is an empty slot.)                 *)
(***************************************************************************)
C16_DetailsPerRecordedAnswer ==
  \A h \in DOMAIN heap :
    LET quiz    == heap[h]
        details == getResults(quiz, now).details
    IN  Started(quiz) =>
          /\ {i \in DOMAIN details : details[i] # Hole} = Answered(quiz)
          /\ \A i \in Answered(quiz) :
               /\ details[i].questionText = quiz.questions[i].text
               /\ details[i].selectedAnswer =
                    quiz.questions[i].options[quiz.userAnswers[i].answerIndex + 1]
               /\ details[i].correctAnswer =
                    quiz.questions[i].options[quiz.questions[i].correctAnswerIndex + 1]
               /\ details[i].isCorrect = quiz.userAnswers[i].isCorrect
               /\ details[i].pointsEarned = quiz.userAnswers[i].points
               /\ details[i].maxPoints = quiz.questions[i].points

\* results of a started quiz whose second question was answered, wrongly,
\* and whose first question was not
C16_Witness ==
  /\ ret.op = "finish"
  /\ Started(heap[1])
  /\ Answered(heap[1]) = {2}
  /\ ret.value.details[2].isCorrect = FALSE

(***************************************************************************)
(* C17: after deleteQuiz(id) a handle obtained earlier keeps its state and *)
(* stays usable, and using it never registers the quiz again; a later      *)
(* createQuiz(id) succeeds and yields a distinct, fresh Quiz whose state   *)
(* is independent of the deleted one.                                      *)
(***************************************************************************)
QuizOperations == {"addQuestion", "start", "submitAnswer", "finish", "reset"}

C17_DeletedHandleStaysUsable ==
  [][/\ \A id \in QuizIds :
          (ret'.op = "deleteQuiz" /\ deleteQuiz(id)) => heap' = heap
     /\ ret'.op \in QuizOperations =>
          /\ quizzes' = quizzes
          /\ Cardinality({h \in DOMAIN heap : heap'[h] # heap[h]}) <= 1
     /\ \A id \in QuizIds :
          (ret'.op = "createQuiz" /\ createQuiz(id) /\ ~MapHas(quizzes, id)) =>
            /\ ret'.status = "returned"
            /\ ret'.value \notin DOMAIN heap
            /\ heap'[ret'.value] = NewQuiz(id)
            /\ MapGet(quizzes', id) = ret'.value
            /\ \A h \in DOMAIN heap : heap'[h] = heap[h]]_vars

\* the id of a deleted quiz that holds an answer was just created again
C17_Witness ==
  /\ ret.op = "createQuiz"
  /\ ret.status = "returned"
  /\ ret.value = 2
  /\ heap[1].id = heap[2].id
  /\ Answered(heap[1]) # {}
  /\ heap[2] = NewQuiz(heap[1].id)
  /\ listQuizzes = <<2>>

(***************************************************************************)
(* C18: whenever getResults() reports a non-null duration, that duration   *)
(* is non-negative, for every interleaving of start, submitAnswer, finish  *)
(* and reset (the clock never goes back).                                  *)
(***************************************************************************)
C18_DurationNonNegative ==
  \A h \in DOMAIN heap :
    LET duration == getResults(heap[h], now).duration
    IN  duration # NULL => ValueOf(duration) >= 0

(***************************************************************************)
(* C19: with positive question points, 0 <= getResults().score <= maxScore *)
(* and 0 <= getProgress().currentScore <= maxPossibleScore in every        *)
(* reachable state, so the percentage never exceeds 100.                   *)
(***************************************************************************)
C19_ScoreWithinBounds ==
  \A h \in DOMAIN heap :
    LET results  == getResults(heap[h], now)
        progress == getProgress(heap[h])
    IN  /\ 0 <= results.score /\ results.score <= results.maxScore
        /\ 0 <= progress.currentScore
        /\ progress.currentScore <= progress.maxPossibleScore
        /\ results.percentage <= 100 * 100

\* every question of a quiz with questions of different points answered
\* correctly: the score reaches maxScore
C19_Witness ==
  /\ ret.op = "finish"
  /\ Started(heap[1])
  /\ Len(heap[1].questions) = MaxQuestions
  /\ \E i, j \in DOMAIN heap[1].questions :
       heap[1].questions[i].points # heap[1].questions[j].points
  /\ ret.value.score = ret.value.maxScore
  /\ ret.value.percentage = 100 * 100

(***************************************************************************)
(* C20: whenever startTime is set, getProgress().currentScore equals       *)
(* getResults().score and getProgress().maxPossibleScore equals            *)
(* getResults().maxScore, after any sequence of submitAnswer, finish and   *)
(* addQuestion.                                                            *)
(***************************************************************************)
C20_ProgressAgreesWithResults ==
  \A h \in DOMAIN heap :
    Started(heap[h]) =>
      /\ getProgress(heap[h]).currentScore = getResults(heap[h], now).score
      /\ getProgress(heap[h]).maxPossibleScore = getResults(heap[h], now).maxScore

\* a started, finished quiz holding a correct answer worth two points, with
\* a question added afterwards
C20_Witness ==
  /\ ret.op = "addQuestion"
  /\ ret.status = "returned"
  /\ Started(heap[1])
  /\ heap[1].endTime # NULL
  /\ Len(heap[1].questions) = 2
  /\ getProgress(heap[1]).currentScore = 2

====
